---- MODULE Spec2Model ----
(***************************************************************************)
(* EsPredicate (be/src/exec/es_predicate.cpp): translation of one conjunct *)
(* of a scan filter into the list of predicates pushed down to             *)
(* Elasticsearch.  One EsPredicate object is modelled: its fields, the     *)
(* no-argument build_disjuncts_list() and get_predicate_list().            *)
(***************************************************************************)
EXTENDS Integers, Sequences, FiniteSets, TLC

\* Largest number of leaves of an enumerated OR/AND tree.
MaxLeaves == 3

\* Largest number of build_disjuncts_list() calls made on the object.
MaxCalls == 2

VARIABLES
    _context,        \* ExprContext* _context: the conjunct, _context->root()
    _tuple_desc,     \* const TupleDescriptor* _tuple_desc: its slots()
    _disjuncts,      \* vector<ExtPredicate> _disjuncts
    _disjuncts_num,  \* int _disjuncts_num
    is_not_in_field, \* what ExtInPredicate's 4-argument constructor leaves in is_not_in
    calls,           \* number of build_disjuncts_list() calls made so far
    ret,             \* value returned by the last build_disjuncts_list()
    before,          \* _disjuncts when the last build_disjuncts_list() was entered
    got,             \* <<list>> returned by the last get_predicate_list(), <<>> if none
    crashed          \* the process died inside a call

vars == <<_context, _tuple_desc, _disjuncts, _disjuncts_num, is_not_in_field,
          calls, ret, before, got, crashed>>

(***************************************************************************)
(* Expression nodes (exprs/expr.h).  Every node has the fields of Expr;    *)
(* the ones a node kind does not use hold a neutral value.                 *)
(***************************************************************************)
Expr(node_type, op, type, function_name, is_not_in, slot_ids, val, children) ==
    [node_type |-> node_type, op |-> op, type |-> type,
     function_name |-> function_name, is_not_in |-> is_not_in,
     slot_ids |-> slot_ids, val |-> val, children |-> children]

\* Declared type of the column behind a slot id (the planner gives a SlotRef
\* the type of the slot it refers to).
ColumnType(id) ==
    CASE id = 1 -> "TYPE_INT"
      [] id = 2 -> "TYPE_VARCHAR"
      [] OTHER  -> "TYPE_BIGINT"

SlotRef(slot_ids) ==
    Expr("SLOT_REF", "INVALID_OPCODE", ColumnType(slot_ids[1]), "", FALSE,
         slot_ids, "", <<>>)

Literal(node_type, type, val) ==
    Expr(node_type, "INVALID_OPCODE", type, "", FALSE, <<>>, val, <<>>)

CastExpr(type, child) ==
    Expr("CAST_EXPR", "CAST", type, "", FALSE, <<>>, "", <<child>>)

BinaryPredicate(op, children) ==
    Expr("BINARY_PRED", op, "TYPE_BOOLEAN", "", FALSE, <<>>, "", children)

FunctionCall(function_name, children) ==
    Expr("FUNCTION_CALL", "INVALID_OPCODE", "TYPE_BOOLEAN", function_name, FALSE,
         <<>>, "", children)

InPredicate(is_not_in, children) ==
    Expr("IN_PRED", "FILTER_IN", "TYPE_BOOLEAN", "", is_not_in, <<>>, "", children)

CompoundPredicate(op, left, right) ==
    Expr("COMPOUND_PRED", op, "TYPE_BOOLEAN", "", FALSE, <<>>, "", <<left, right>>)

IsNullPredicate(child) ==
    Expr("IS_NULL_PRED", "INVALID_OPCODE", "TYPE_BOOLEAN", "", FALSE, <<>>, "",
         <<child>>)

\* TypeDescriptor::is_string_type()
is_string_type(type) == type \in {"TYPE_VARCHAR", "TYPE_CHAR"}

\* Expr::type_without_cast(): the node type under any cast wrappers.
RECURSIVE type_without_cast(_)
type_without_cast(expr) ==
    IF expr.op = "CAST"
    THEN type_without_cast(expr.children[1])
    ELSE expr.node_type

\* Expr::get_slot_ids() (virtual): a SlotRef gives its own ids, any other
\* node those of its children, left to right.
RECURSIVE get_slot_ids(_)
RECURSIVE children_slot_ids(_, _)
children_slot_ids(expr, i) ==
    IF i > Len(expr.children)
    THEN <<>>
    ELSE get_slot_ids(expr.children[i]) \o children_slot_ids(expr, i + 1)

get_slot_ids(expr) ==
    IF expr.node_type = "SLOT_REF"
    THEN expr.slot_ids
    ELSE children_slot_ids(expr, 1)

\* ExprContext::get_value(expr, NULL): a literal evaluates to its value; with
\* no row, anything else evaluates to null.
get_value(expr) ==
    IF expr.node_type \in {"INT_LITERAL", "STRING_LITERAL"}
    THEN expr.val
    ELSE "NULL"

\* ExtLiteral(expr->node_type()) with value = get_value(expr, NULL)
ExtLiteral(expr) == [node_type |-> expr.node_type, value |-> get_value(expr)]

\* What is read through an Expr* taken from beyond the end of children().
GarbageLiteral == [node_type |-> "GARBAGE", value |-> "GARBAGE"]

ExtBinaryPredicate(node_type, name, type, op, value) ==
    [node_type |-> node_type, col |-> [name |-> name, type |-> type],
     op |-> op, value |-> value]

ExtFunction(node_type, func_name, cols, values) ==
    [node_type |-> node_type, func_name |-> func_name, cols |-> cols,
     values |-> values]

\* The constructor is given no is-not-in marker.
ExtInPredicate(node_type, name, type, values) ==
    [node_type |-> node_type, is_not_in |-> is_not_in_field,
     col |-> [name |-> name, type |-> type], values |-> values]

nullptr == [id |-> -1, col_name |-> "", type |-> "INVALID_TYPE"]

SlotDescriptor(id, col_name, type) == [id |-> id, col_name |-> col_name, type |-> type]

(***************************************************************************)
(* EsPredicate::get_slot_desc                                              *)
(***************************************************************************)
\* Faulty variant of slots_loop: the loop has no break, the last match wins.
RECURSIVE slots_loop_no_break(_, _)
slots_loop_no_break(slot_id, i) ==
    IF i > Len(_tuple_desc)
    THEN nullptr
    ELSE LET later == slots_loop_no_break(slot_id, i + 1)
         IN  IF later # nullptr
             THEN later
             ELSE IF _tuple_desc[i].id = slot_id
                  THEN _tuple_desc[i]
                  ELSE nullptr

RECURSIVE slots_loop(_, _)
slots_loop(slot_id, i) ==
    IF i > Len(_tuple_desc)
    THEN nullptr
    ELSE IF _tuple_desc[i].id = slot_id
         THEN _tuple_desc[i]
         ELSE slots_loop(slot_id, i + 1)

get_slot_desc(slotRef) ==
    LET slot_ids == get_slot_ids(slotRef)
    IN  slots_loop(slot_ids[1], 1)

(***************************************************************************)
(* EsPredicate::is_match_func                                              *)
(***************************************************************************)
is_match_func(conjunct) ==
    /\ conjunct.node_type = "FUNCTION_CALL"
    /\ conjunct.function_name = "esquery"

(***************************************************************************)
(* EsPredicate::build_disjuncts_list(Expr*, vector<ExtPredicate>&)         *)
(* The result holds the returned bool, the vector as the call leaves it,   *)
(* and whether the process died on the way.                                *)
(***************************************************************************)
Returns(value, disjuncts) ==
    [ret |-> value, crashed |-> FALSE, disjuncts |-> disjuncts]

Crashes(disjuncts) ==
    [ret |-> FALSE, crashed |-> TRUE, disjuncts |-> disjuncts]

\* The outcomes of reading children()[1] of a node that has one child.
OutOfRangeRead == {"crash", "garbage"}

\* Faulty variant of build_binary_pred: the operator is mirrored when the
\* slot reference is the second child.
build_binary_pred_flipped(conjunct, disjuncts) ==
    IF Len(conjunct.children) # 2
    THEN Returns(FALSE, disjuncts)
    ELSE
        LET child0 == conjunct.children[1]
            child1 == conjunct.children[2]
        IN  IF child0.node_type # "SLOT_REF" /\ child1.node_type # "SLOT_REF"
            THEN Returns(FALSE, disjuncts)
            ELSE
                LET first     == child0.node_type = "SLOT_REF"
                    expr      == IF first THEN child1 ELSE child0
                    slotRef   == IF first THEN child0 ELSE child1
                    op        == IF first THEN conjunct.op
                                 ELSE IF conjunct.op = "GT" THEN "LT"
                                 ELSE IF conjunct.op = "LT" THEN "GT"
                                 ELSE conjunct.op
                    slot_desc == get_slot_desc(slotRef)
                IN  IF slot_desc = nullptr
                    THEN Returns(FALSE, disjuncts)
                    ELSE Returns(TRUE,
                            Append(disjuncts,
                                ExtBinaryPredicate("BINARY_PRED", slot_desc.col_name,
                                    slot_desc.type, op, ExtLiteral(expr))))

build_binary_pred(conjunct, disjuncts) ==
    IF Len(conjunct.children) # 2
    THEN Returns(FALSE, disjuncts)
    ELSE
        LET child0 == conjunct.children[1]
            child1 == conjunct.children[2]
        IN  IF child0.node_type # "SLOT_REF" /\ child1.node_type # "SLOT_REF"
            THEN Returns(FALSE, disjuncts)
            ELSE
                LET first     == child0.node_type = "SLOT_REF"
                    expr      == IF first THEN child1 ELSE child0
                    slotRef   == IF first THEN child0 ELSE child1
                    op        == conjunct.op
                    slot_desc == get_slot_desc(slotRef)
                IN  IF slot_desc = nullptr
                    THEN Returns(FALSE, disjuncts)
                    ELSE Returns(TRUE,
                            Append(disjuncts,
                                ExtBinaryPredicate("BINARY_PRED", slot_desc.col_name,
                                    slot_desc.type, op, ExtLiteral(expr))))

build_match_func(conjunct, disjuncts, oob) ==
    IF Len(conjunct.children) < 2
    THEN IF oob = "crash"
         THEN Crashes(disjuncts)
         ELSE Returns(TRUE,
                 Append(disjuncts,
                     ExtFunction("FUNCTION_CALL", conjunct.function_name, <<>>,
                         <<GarbageLiteral>>)))
    ELSE
        LET expr == conjunct.children[2]
            query_conditions == <<ExtLiteral(expr)>>
            cols == <<>>
        IN  Returns(TRUE,
                Append(disjuncts,
                    ExtFunction("FUNCTION_CALL", conjunct.function_name, cols,
                        query_conditions)))

\* The loop over the value children of an IN predicate, from child i on.
RECURSIVE in_values_loop(_, _, _)
in_values_loop(pred, i, in_pred_values) ==
    IF i > Len(pred.children)
    THEN [ok |-> TRUE, in_pred_values |-> in_pred_values]
    ELSE
        LET mismatch ==
                IF is_string_type(pred.children[1].type)
                THEN ~is_string_type(pred.children[i].type)
                ELSE pred.children[i].type # pred.children[1].type
        IN  IF mismatch
            THEN [ok |-> FALSE, in_pred_values |-> in_pred_values]
            ELSE in_values_loop(pred, i + 1,
                    Append(in_pred_values, ExtLiteral(pred.children[i])))

build_in_pred(conjunct, disjuncts) ==
    IF type_without_cast(conjunct.children[1]) # "SLOT_REF"
    THEN Returns(FALSE, disjuncts)
    ELSE
        \* (SlotRef*) conjunct->get_child(0): under a cast wrapper the pointer is
        \* the cast node, whose get_slot_ids() gives the wrapped slot's ids.
        LET slot_ref  == conjunct.children[1]
            slot_desc == get_slot_desc(slot_ref)
        IN  IF slot_desc = nullptr
            THEN Returns(FALSE, disjuncts)
            ELSE
                LET loop == in_values_loop(conjunct, 2, <<>>)
                IN  IF ~loop.ok
                    THEN Returns(FALSE, disjuncts)
                    ELSE Returns(TRUE,
                            Append(disjuncts,
                                ExtInPredicate("IN_PRED", slot_desc.col_name,
                                    slot_desc.type, loop.in_pred_values)))

RECURSIVE build_disjuncts_list(_, _, _)

\* Faulty variant of build_compound_pred: the right child is translated
\* before the left one.
build_compound_pred_right_first(conjunct, disjuncts, oob) ==
    IF conjunct.op # "COMPOUND_OR"
    THEN Returns(FALSE, disjuncts)
    ELSE
        LET right == build_disjuncts_list(conjunct.children[2], disjuncts, oob)
        IN  IF right.crashed
            THEN right
            ELSE IF ~right.ret
            THEN Returns(FALSE, right.disjuncts)
            ELSE
                LET left == build_disjuncts_list(conjunct.children[1],
                                right.disjuncts, oob)
                IN  IF left.crashed
                    THEN left
                    ELSE IF ~left.ret
                    THEN Returns(FALSE, left.disjuncts)
                    ELSE Returns(TRUE, left.disjuncts)

\* Faulty variant of build_compound_pred: the operator is not looked at.
build_compound_pred_any_op(conjunct, disjuncts, oob) ==
    LET left == build_disjuncts_list(conjunct.children[1], disjuncts, oob)
    IN  IF left.crashed
        THEN left
        ELSE IF ~left.ret
        THEN Returns(FALSE, left.disjuncts)
        ELSE
            LET right == build_disjuncts_list(conjunct.children[2],
                             left.disjuncts, oob)
            IN  IF right.crashed
                THEN right
                ELSE IF ~right.ret
                THEN Returns(FALSE, right.disjuncts)
                ELSE Returns(TRUE, right.disjuncts)

\* Faulty variant of build_compound_pred: a failing child makes the node
\* give the list back as it received it.
build_compound_pred_rollback(conjunct, disjuncts, oob) ==
    IF conjunct.op # "COMPOUND_OR"
    THEN Returns(FALSE, disjuncts)
    ELSE
        LET left == build_disjuncts_list(conjunct.children[1], disjuncts, oob)
        IN  IF left.crashed
            THEN left
            ELSE IF ~left.ret
            THEN Returns(FALSE, disjuncts)
            ELSE
                LET right == build_disjuncts_list(conjunct.children[2],
                                 left.disjuncts, oob)
                IN  IF right.crashed
                    THEN right
                    ELSE IF ~right.ret
                    THEN Returns(FALSE, disjuncts)
                    ELSE Returns(TRUE, right.disjuncts)

build_compound_pred(conjunct, disjuncts, oob) ==
    IF conjunct.op # "COMPOUND_OR"
    THEN Returns(FALSE, disjuncts)
    ELSE
        LET left == build_disjuncts_list(conjunct.children[1], disjuncts, oob)
        IN  IF left.crashed
            THEN left
            ELSE IF ~left.ret
            THEN Returns(FALSE, left.disjuncts)
            ELSE
                LET right == build_disjuncts_list(conjunct.children[2],
                                 left.disjuncts, oob)
                IN  IF right.crashed
                    THEN right
                    ELSE IF ~right.ret
                    THEN Returns(FALSE, right.disjuncts)
                    ELSE Returns(TRUE, right.disjuncts)

build_disjuncts_list(conjunct, disjuncts, oob) ==
    IF conjunct.node_type = "BINARY_PRED"
    THEN build_binary_pred(conjunct, disjuncts)
    ELSE IF is_match_func(conjunct)
    THEN build_match_func(conjunct, disjuncts, oob)
    ELSE IF conjunct.node_type = "IN_PRED"
    THEN build_in_pred(conjunct, disjuncts)
    ELSE IF conjunct.node_type = "COMPOUND_PRED"
    THEN build_compound_pred(conjunct, disjuncts, oob)
    ELSE Returns(FALSE, disjuncts)

(***************************************************************************)
(* The conjuncts and tuple shapes an EsPredicate is constructed with.      *)
(***************************************************************************)
IntLit(val)    == Literal("INT_LITERAL", "TYPE_INT", val)
BigIntLit(val) == Literal("INT_LITERAL", "TYPE_BIGINT", val)
VarcharLit(val) == Literal("STRING_LITERAL", "TYPE_VARCHAR", val)
CharLit(val)   == Literal("STRING_LITERAL", "TYPE_CHAR", val)

\* Slot id 3 is in no tuple shape.
SlotRefs == {SlotRef(<<1>>), SlotRef(<<2>>), SlotRef(<<3>>),
             SlotRef(<<1, 3>>), SlotRef(<<3, 1>>)}

Operands == SlotRefs \cup {IntLit("5"), VarcharLit("x")}

BinaryPreds ==
    {BinaryPredicate(op, <<l, r>>) : op \in {"GT", "LT"}, l \in Operands, r \in Operands}
    \cup {BinaryPredicate("GT", <<SlotRef(<<1>>)>>),
          BinaryPredicate("GT", <<SlotRef(<<1>>), IntLit("5"), IntLit("5")>>)}

FunctionCalls ==
    {FunctionCall(name, children) :
        name \in {"esquery", "abs"},
        children \in {<<VarcharLit("q")>>,
                      <<SlotRef(<<1>>), VarcharLit("q")>>,
                      <<SlotRef(<<3>>), VarcharLit("q")>>,
                      <<IntLit("5"), VarcharLit("q")>>,
                      <<SlotRef(<<1>>), VarcharLit("q"), IntLit("5")>>}}

InValues == {IntLit("1"), BigIntLit("2"), VarcharLit("x"), CharLit("y")}

InFirsts ==
    {SlotRef(<<1>>), SlotRef(<<2>>), SlotRef(<<3>>), SlotRef(<<3, 1>>),
     CastExpr("TYPE_VARCHAR", SlotRef(<<1>>)),
     CastExpr("TYPE_INT", SlotRef(<<2>>)),
     CastExpr("TYPE_BIGINT", CastExpr("TYPE_VARCHAR", SlotRef(<<1>>))),
     CastExpr("TYPE_INT", SlotRef(<<3>>)),
     IntLit("5"),
     CastExpr("TYPE_VARCHAR", IntLit("5"))}

InPreds ==
    {InPredicate(is_not_in, <<first>> \o values) :
        is_not_in \in BOOLEAN,
        first \in InFirsts,
        values \in {<<v>> : v \in InValues} \cup {<<v, w>> : v \in InValues, w \in InValues}}

OtherNodes == {IntLit("5"), SlotRef(<<1>>), IsNullPredicate(SlotRef(<<1>>))}

\* The leaves of the enumerated OR/AND trees.
Leaves ==
    {BinaryPredicate("GT", <<SlotRef(<<1>>), IntLit("5")>>),
     InPredicate(TRUE, <<SlotRef(<<2>>), VarcharLit("x"), CharLit("y")>>),
     FunctionCall("esquery", <<SlotRef(<<1>>), VarcharLit("q")>>),
     InPredicate(FALSE, <<SlotRef(<<1>>), IntLit("1"), VarcharLit("x")>>),
     IsNullPredicate(SlotRef(<<1>>))}

RECURSIVE TreesWith(_)
TreesWith(k) ==
    IF k = 1
    THEN Leaves
    ELSE UNION {
            {CompoundPredicate(op, left, right) :
                op \in {"COMPOUND_OR", "COMPOUND_AND"},
                left \in TreesWith(i),
                right \in TreesWith(k - i)} : i \in 1..(k - 1)}

\* Conjuncts without a compound node.
SimpleConjuncts ==
    BinaryPreds \cup FunctionCalls \cup InPreds \cup OtherNodes \cup Leaves

TupleShapes ==
    {<<SlotDescriptor(1, "a", ColumnType(1)), SlotDescriptor(2, "s", ColumnType(2))>>,
     <<SlotDescriptor(2, "s", ColumnType(2)), SlotDescriptor(1, "a", ColumnType(1)),
       SlotDescriptor(1, "a2", ColumnType(1))>>}

(***************************************************************************)
(* EsPredicate::EsPredicate                                                *)
(***************************************************************************)
Init ==
    /\ \/ _context \in SimpleConjuncts
       \/ \E i \in 1..(MaxLeaves - 1) : \E j \in 1..(MaxLeaves - i) :
            \E op \in {"COMPOUND_OR", "COMPOUND_AND"} :
                \E left \in TreesWith(i) : \E right \in TreesWith(j) :
                    _context = CompoundPredicate(op, left, right)
    /\ _tuple_desc \in TupleShapes
    /\ _disjuncts = <<>>
    /\ _disjuncts_num = 0
    /\ is_not_in_field \in BOOLEAN
    /\ calls = 0
    /\ ret = FALSE
    /\ before = <<>>
    /\ got = <<>>
    /\ crashed = FALSE

\* Faulty variant of BuildDisjunctsList: the list is cleared before the
\* conjunct is translated.
BuildDisjunctsList_clearing ==
    /\ ~crashed
    /\ calls < MaxCalls
    /\ \E oob \in OutOfRangeRead :
        LET r == build_disjuncts_list(_context, <<>>, oob)
        IN  /\ _disjuncts' = r.disjuncts
            /\ crashed' = r.crashed
            /\ ret' = IF r.crashed THEN ret ELSE r.ret
    /\ before' = _disjuncts
    /\ calls' = calls + 1
    /\ UNCHANGED <<_context, _tuple_desc, _disjuncts_num, is_not_in_field, got>>

(***************************************************************************)
(* bool EsPredicate::build_disjuncts_list()                                *)
(***************************************************************************)
BuildDisjunctsList ==
    /\ ~crashed
    /\ calls < MaxCalls
    /\ \E oob \in OutOfRangeRead :
        LET r == build_disjuncts_list(_context, _disjuncts, oob)
        IN  /\ _disjuncts' = r.disjuncts
            /\ crashed' = r.crashed
            /\ ret' = IF r.crashed THEN ret ELSE r.ret
    /\ before' = _disjuncts
    /\ calls' = calls + 1
    /\ UNCHANGED <<_context, _tuple_desc, _disjuncts_num, is_not_in_field, got>>

(***************************************************************************)
(* vector<ExtPredicate> EsPredicate::get_predicate_list()                  *)
(***************************************************************************)
GetPredicateList ==
    /\ ~crashed
    /\ got' = <<_disjuncts>>
    /\ UNCHANGED <<_context, _tuple_desc, _disjuncts, _disjuncts_num,
                   is_not_in_field, calls, ret, before, crashed>>

Next == BuildDisjunctsList \/ GetPredicateList

Spec == Init /\ [][Next]_vars

(***************************************************************************)
(* Vocabulary of the properties.                                           *)
(***************************************************************************)
\* The last build_disjuncts_list() call returned.
Called == calls > 0 /\ ~crashed

IsPrefix(s, t) == Len(s) <= Len(t) /\ SubSeq(t, 1, Len(s)) = s

\* What the last build_disjuncts_list() call appended.
Appended == SubSeq(_disjuncts, Len(before) + 1, Len(_disjuncts))

IsCompound(node) == node.node_type = "COMPOUND_PRED"

IsOr(node) == IsCompound(node) /\ node.op = "COMPOUND_OR"

\* The nodes under the OR nodes at the top of a tree, left to right.
RECURSIVE OrLeaves(_)
OrLeaves(node) ==
    IF IsOr(node)
    THEN OrLeaves(node.children[1]) \o OrLeaves(node.children[2])
    ELSE <<node>>

\* A node is translated on its own, into an empty list.
Alone(node) == build_disjuncts_list(node, <<>>, "crash")

Representable(node) == Alone(node).ret /\ ~Alone(node).crashed

\* A compound node with an operator other than OR, at the top or under ORs.
RECURSIVE HasNonOrUnderOrs(_)
HasNonOrUnderOrs(node) ==
    /\ IsCompound(node)
    /\ \/ node.op # "COMPOUND_OR"
       \/ HasNonOrUnderOrs(node.children[1])
       \/ HasNonOrUnderOrs(node.children[2])

\* The predicates of the leaves before the first failing node, and whether
\* there is no failing node.
RECURSIVE Walk(_)
Walk(node) ==
    IF IsCompound(node)
    THEN IF node.op # "COMPOUND_OR"
         THEN [ok |-> FALSE, preds |-> <<>>]
         ELSE LET l == Walk(node.children[1])
              IN  IF ~l.ok
                  THEN l
                  ELSE LET r == Walk(node.children[2])
                       IN  [ok |-> r.ok, preds |-> l.preds \o r.preds]
    ELSE IF Representable(node)
         THEN [ok |-> TRUE, preds |-> <<Alone(node).disjuncts[1]>>]
         ELSE [ok |-> FALSE, preds |-> <<>>]

RECURSIVE Repeat(_, _)
Repeat(s, n) == IF n = 0 THEN <<>> ELSE Repeat(s, n - 1) \o s

\* The slot reference under any cast wrappers.
RECURSIVE Uncast(_)
Uncast(expr) == IF expr.op = "CAST" THEN Uncast(expr.children[1]) ELSE expr

IsSlotRef(expr) == expr.node_type = "SLOT_REF"

\* The positions of the tuple shape's slots with this identifier.
SlotsWithId(id) == {i \in 1..Len(_tuple_desc) : _tuple_desc[i].id = id}

FirstSlotWithId(id) ==
    _tuple_desc[CHOOSE i \in SlotsWithId(id) : \A j \in SlotsWithId(id) : i <= j]

\* The root is a binary comparison with two children.
BinaryRoot == _context.node_type = "BINARY_PRED" /\ Len(_context.children) = 2

InRoot == _context.node_type = "IN_PRED"

\* The root reads children()[1] of a node that has no second child.
ReadsOutOfRange == is_match_func(_context) /\ Len(_context.children) < 2

(***************************************************************************)
(* C1: for a conjunct that is a tree of OR nodes whose leaves are all      *)
(* representable on their own, build_disjuncts_list returns true and       *)
(* extends the list by exactly one predicate per leaf, in left-to-right    *)
(* depth-first order of the leaves; the list is then non-empty.            *)
(***************************************************************************)
C1_OrTreeLeavesInOrder ==
    LET leaves == OrLeaves(_context)
    IN  (Called /\ \A i \in 1..Len(leaves) : Representable(leaves[i]))
        => /\ ret = TRUE
           /\ IsPrefix(before, _disjuncts)
           /\ Appended = [i \in 1..Len(leaves) |-> Alone(leaves[i]).disjuncts[1]]
           /\ Len(_disjuncts) > 0

\* A second call on (esquery OR a > 5) OR s NOT IN (...): three leaves of
\* three kinds appended after the three of the first call.
C1_Witness ==
    /\ calls = 2 /\ ~crashed /\ ret = TRUE
    /\ IsOr(_context) /\ IsOr(_context.children[1])
    /\ Len(_disjuncts) = 6
    /\ _disjuncts[4].node_type = "FUNCTION_CALL"
    /\ _disjuncts[5].node_type = "BINARY_PRED"
    /\ _disjuncts[6].node_type = "IN_PRED"

(***************************************************************************)
(* C2: translation of a compound node succeeds iff its operator is OR and  *)
(* the translation of its left child and of its right child both succeed;  *)
(* a conjunct with a non-OR compound (AND) at the top or anywhere beneath  *)
(* a chain of ORs makes the call return false.                             *)
(***************************************************************************)
C2_CompoundIffOrAndBothChildren ==
    (Called /\ IsCompound(_context))
    => /\ ret = (/\ _context.op = "COMPOUND_OR"
                 /\ Walk(_context.children[1]).ok
                 /\ Walk(_context.children[2]).ok)
       /\ HasNonOrUnderOrs(_context) => ret = FALSE

\* a > 5 OR (esquery(..) AND a > 5): an AND of two representable leaves
\* beneath an OR.
C2_Witness ==
    /\ Called /\ ret = FALSE
    /\ IsOr(_context)
    /\ Representable(_context.children[1])
    /\ IsCompound(_context.children[2])
    /\ _context.children[2].op = "COMPOUND_AND"
    /\ Representable(_context.children[2].children[1])
    /\ Representable(_context.children[2].children[2])

(***************************************************************************)
(* C3: for a binary comparison with two children, if neither child is a    *)
(* slot reference, or if both are, translation fails and no Comparison     *)
(* predicate is emitted.                                                   *)
(***************************************************************************)
C3_NeitherOrBothSlotRefsFail ==
    (Called /\ BinaryRoot
        /\ IsSlotRef(_context.children[1]) = IsSlotRef(_context.children[2]))
    => ret = FALSE /\ _disjuncts = before

(***************************************************************************)
(* C4: a binary comparison with two children, one a slot reference that    *)
(* resolves and the other the operand, on whichever side, succeeds and     *)
(* appends exactly one Comparison with the resolved slot's column name and *)
(* type, the operand's evaluated value and the node's operator unchanged;  *)
(* the slot's type is not compared with the operand's.                     *)
(***************************************************************************)
C4_ComparisonOperatorVerbatim ==
    \A s \in 1..2 :
        LET slot    == _context.children[s]
            operand == _context.children[3 - s]
        IN  (Called /\ BinaryRoot /\ IsSlotRef(slot) /\ ~IsSlotRef(operand)
                /\ SlotsWithId(slot.slot_ids[1]) # {})
            => /\ ret = TRUE
               /\ _disjuncts = Append(before,
                    [node_type |-> "BINARY_PRED",
                     col |-> [name |-> FirstSlotWithId(slot.slot_ids[1]).col_name,
                              type |-> FirstSlotWithId(slot.slot_ids[1]).type],
                     op |-> _context.op,
                     value |-> [node_type |-> operand.node_type,
                                value |-> operand.val]])

\* 'x' < a with a an integer column: the slot is the second child and the
\* operand a string.
C4_Witness ==
    /\ Called /\ BinaryRoot /\ ret = TRUE
    /\ _context.op = "LT"
    /\ IsSlotRef(_context.children[2])
    /\ _context.children[2].type = "TYPE_INT"
    /\ _context.children[1].type = "TYPE_VARCHAR"
    /\ _disjuncts[Len(_disjuncts)].op = "LT"
    /\ _disjuncts[Len(_disjuncts)].value.value = "x"

(***************************************************************************)
(* C5: a successfully translated membership test emits a Membership        *)
(* predicate whose negation flag equals the node's is-not-in marker, with  *)
(* the slot's column name and type and the evaluated value children in     *)
(* source order.                                                           *)
(***************************************************************************)
C5_MembershipCarriesIsNotIn ==
    (Called /\ InRoot /\ ret = TRUE)
    => LET slot == Uncast(_context.children[1])
           pred == _disjuncts[Len(_disjuncts)]
       IN  /\ Len(_disjuncts) = Len(before) + 1
           /\ pred.is_not_in = _context.is_not_in
           /\ pred.col = [name |-> FirstSlotWithId(slot.slot_ids[1]).col_name,
                          type |-> FirstSlotWithId(slot.slot_ids[1]).type]
           /\ pred.values = [i \in 1..(Len(_context.children) - 1) |->
                                [node_type |-> _context.children[i + 1].node_type,
                                 value |-> _context.children[i + 1].val]]

(***************************************************************************)
(* C6: for a membership test whose de-cast first child is a resolvable     *)
(* slot reference, translation succeeds iff every value child is           *)
(* compatible with the slot's declared type (string family with string     *)
(* family, otherwise equal type tags), also when the first child is the    *)
(* slot reference wrapped in a cast to another type.                       *)
(***************************************************************************)
C6_ValuesCheckedAgainstSlotType ==
    LET slot == Uncast(_context.children[1])
    IN  (Called /\ InRoot /\ IsSlotRef(slot) /\ SlotsWithId(slot.slot_ids[1]) # {})
        => LET declared == FirstSlotWithId(slot.slot_ids[1]).type
           IN  ret = \A i \in 2..Len(_context.children) :
                        IF declared \in {"TYPE_VARCHAR", "TYPE_CHAR"}
                        THEN _context.children[i].type \in {"TYPE_VARCHAR", "TYPE_CHAR"}
                        ELSE _context.children[i].type = declared

(***************************************************************************)
(* C7: if the first identifier of the slot reference used by a binary      *)
(* comparison or a membership test equals the identifier of no slot of the *)
(* tuple shape, translation fails; when it matches, the descriptor used is *)
(* the first slot of the tuple shape with that identifier; only the        *)
(* reference's first identifier is consulted.                              *)
(***************************************************************************)
C7_FirstIdentifierFirstMatch ==
    LET used == IF InRoot
                THEN Uncast(_context.children[1])
                ELSE IF IsSlotRef(_context.children[1])
                     THEN _context.children[1]
                     ELSE _context.children[2]
    IN  (Called /\ (InRoot \/ BinaryRoot) /\ IsSlotRef(used))
        => /\ SlotsWithId(used.slot_ids[1]) = {}
                => ret = FALSE /\ _disjuncts = before
           /\ ret = TRUE
                => /\ SlotsWithId(used.slot_ids[1]) # {}
                   /\ _disjuncts[Len(_disjuncts)].col =
                        [name |-> FirstSlotWithId(used.slot_ids[1]).col_name,
                         type |-> FirstSlotWithId(used.slot_ids[1]).type]

\* A comparison on a reference with two identifiers, the first one in two
\* slots of the tuple shape: the first of the two slots is used.
C7_Witness ==
    /\ Called /\ BinaryRoot /\ ret = TRUE
    /\ IsSlotRef(_context.children[1])
    /\ _context.children[1].slot_ids = <<1, 3>>
    /\ Cardinality(SlotsWithId(1)) = 2
    /\ _disjuncts[Len(_disjuncts)].col.name = "a"

(***************************************************************************)
(* C8: a failing call does not roll back and appends nothing for the       *)
(* failing node: after a call that returned false the list is its contents *)
(* before the call followed by the predicates of exactly the leaves that   *)
(* precede the first failing node in left-to-right depth-first order.      *)
(***************************************************************************)
C8_FailureKeepsLeavesBeforeFailingNode ==
    (Called /\ ret = FALSE)
    => /\ IsPrefix(before, _disjuncts)
       /\ Appended = Walk(_context).preds
       /\ ~IsOr(_context) => _disjuncts = before

\* (a > 5) OR (a IS NULL): false is returned and Comparison(a, >, 5) stays.
C8_Witness ==
    /\ Called /\ ret = FALSE
    /\ IsOr(_context)
    /\ _context.children[1].node_type = "BINARY_PRED"
    /\ _context.children[2].node_type = "IS_NULL_PRED"
    /\ Len(_disjuncts) = Len(before) + 1
    /\ _disjuncts[Len(_disjuncts)].node_type = "BINARY_PRED"

(***************************************************************************)
(* C9: a function call is representable iff its name is "esquery"; with a  *)
(* second child it appends one FunctionPredicate with that name, no column *)
(* descriptors and the evaluated second child as its only literal,         *)
(* whatever the first argument and the argument count; the translator      *)
(* requires the second child to exist before reading it.                   *)
(***************************************************************************)
C9_EsqueryRequiresSecondChild ==
    (calls > 0 /\ _context.node_type = "FUNCTION_CALL")
    => /\ _context.function_name # "esquery"
            => ~crashed /\ ret = FALSE /\ _disjuncts = before
       /\ (_context.function_name = "esquery" /\ Len(_context.children) >= 2)
            => /\ ~crashed /\ ret = TRUE
               /\ _disjuncts = Append(before,
                    [node_type |-> "FUNCTION_CALL", func_name |-> "esquery",
                     cols |-> <<>>,
                     values |-> <<[node_type |-> _context.children[2].node_type,
                                   value |-> _context.children[2].val]>>])
       /\ (_context.function_name = "esquery" /\ Len(_context.children) < 2)
            => ~crashed /\ ret = FALSE /\ _disjuncts = before

(***************************************************************************)
(* C10: the stored list only grows by extension: build_disjuncts_list()    *)
(* never clears or truncates it and appends what the call produces to what *)
(* the earlier calls left, failed and repeated calls included;             *)
(* get_predicate_list() returns the list whatever the last result was and  *)
(* changes nothing.                                                        *)
(***************************************************************************)
C10_ListOnlyGrows ==
    [][/\ IsPrefix(_disjuncts, _disjuncts')
       /\ (calls' = calls + 1 /\ ~crashed' /\ ~ReadsOutOfRange)
            => /\ _disjuncts' = _disjuncts \o Walk(_context).preds
               /\ _disjuncts' = Repeat(Walk(_context).preds, calls')
       /\ calls' = calls
            => /\ got' = <<_disjuncts>>
               /\ _disjuncts' = _disjuncts]_vars

\* Two calls on (a > 5) OR (a IS NULL), both returning false, then
\* get_predicate_list(): two copies of Comparison(a, >, 5).
C10_Witness ==
    /\ calls = 2 /\ ~crashed /\ ret = FALSE
    /\ Len(_disjuncts) = 2
    /\ _disjuncts[1] = _disjuncts[2]
    /\ got = <<_disjuncts>>

====
